---- MODULE Spec2Model ----
(***************************************************************************)
(* A model of the bit-banged UART of raspberry_soft_uart.c: the session    *)
(* (open/close), the line configuration, the transmit queue, the two       *)
(* hrtimers with their callbacks handle_tx and handle_rx, and the falling  *)
(* edge interrupt handle_rx_start.                                         *)
(*                                                                         *)
(* Time is counted in half bit periods.  A timer is a record               *)
(*   enq  : the timer is queued (HRTIMER_STATE_ENQUEUED)                   *)
(*   run  : its callback is executing                                      *)
(*   left : half periods left before a queued timer expires                *)
(* hrtimer_active() is enq \/ run, as in the kernel.                       *)
(***************************************************************************)
EXTENDS Integers, Sequences, FiniteSets, TLC

VARIABLES
  current_tty,            \* the tty of the open session, or NULL
  current_tty_mutex,      \* "free", or the owner: "ctl" (open/close), "rx" (receive_character)
  irq_depth,              \* disable depth of the RX interrupt; 0 = enabled
  rx_callback,            \* NULL or a callback
  stop_bits, parity_en, ignore_parity_errors,
  parity_init, final_stop_bit_index, parity_index,
  queue_tx,               \* the transmit queue, oldest byte first
  timer_tx, timer_rx,
  tx_character, tx_bit_index, tx_parity,   \* statics of handle_tx
  tx_must_restart,                         \* handle_tx's local, read at its return
  rx_character, rx_bit_index, rx_parity, rx_parity_ok,   \* statics of handle_rx
  rx_must_restart, rx_pc,                  \* handle_rx's local and its position
  gpio_tx_value, gpio_rx_value,            \* levels of the two lines
  ctl_pc, ctl_tty,        \* the thread calling open/close/set_*: its position and open's argument
  send_pc,                \* the thread calling send_string: its position
  session,                \* "new", then "open" since open returned 1, "closed" since close returned
  parity_odd,             \* the parity_odd argument of the last set_parity
  accepted, framed,       \* bytes accepted by send_string / dequeued by handle_tx since the last open
  wire,                   \* levels driven on the output line (loopback runs)
  sink,                   \* bytes delivered by receive_character, with their target
  line_events,            \* number of level changes the remote end made on the input line
  in_bytes, flip,         \* loopback runs: the bytes sent and the bit cell the wire corrupts
  hw                      \* what init acquired: the two pins, their lines, the interrupt

cfgVars  == <<stop_bits, parity_en, ignore_parity_errors, parity_init,
              final_stop_bit_index, parity_index, parity_odd>>
txVars   == <<tx_character, tx_bit_index, tx_parity, tx_must_restart>>
rxVars   == <<rx_character, rx_parity, rx_parity_ok, rx_must_restart, rx_pc>>
ctlVars  == <<ctl_pc, ctl_tty>>
\* what no session operation writes
inVars   == <<in_bytes, flip, hw>>
vars == <<current_tty, current_tty_mutex, irq_depth, rx_callback, cfgVars,
          queue_tx, timer_tx, timer_rx, txVars, rxVars, rx_bit_index,
          gpio_tx_value, gpio_rx_value, ctlVars, send_pc, session,
          accepted, framed, wire, sink, line_events, inVars>>

NULL == "NULL"
Ttys == {"ttyA", "ttyB"}
Callbacks == {"cb"}

\* ---------------------------------------------------------------- bounds
QueueCap == 2          \* capacity of the transmit queue
MaxSendLen == 2        \* longest string handed to send_string
MaxAccepted == 2       \* bytes handed to send_string between two opens
MaxIrqDepth == 2       \* close is called while the interrupt's disable depth is below this
MaxLineEvents == 3     \* level changes the remote end makes on the input line
SendBytes == {65, 130}

\* ------------------------------------------------------------- constants
Period == 2            \* ktime period, in half bit periods
HalfPeriod == 1        \* ktime half_period

Min(a, b) == IF a < b THEN a ELSE b
Max(a, b) == IF a > b THEN a ELSE b
Pow2(n) == 2 ^ n

\* ------------------------------------------------------------ bit helpers
\* 1 & (character >> bit_index)
ShiftAnd1Msb(c, i) == (c \div Pow2(7 - i)) % 2
ShiftAnd1(c, i) == (c \div Pow2(i)) % 2
\* a ^ b on one-bit values
Xor(a, b) == (a + b) % 2
\* character &= 0xfeff on an unsigned int
AndFeff(c) == LET lo == c % 65536 IN lo - ((lo \div 256) % 2) * 256
\* character |= 0x0100
Or0100Low(c) == c + (1 - ((c \div 128) % 2)) * 128
Or0100(c) == c + (1 - ((c \div 256) % 2)) * 256
\* the (unsigned char) conversion of receive_character's argument
ToUChar(c) == c % 256

\* ---------------------------------------------------------------- timers
TimerOff == [enq |-> FALSE, run |-> FALSE, left |-> 0]
hrtimer_active(t) == t.enq \/ t.run
hrtimer_start(t, delay) == [t EXCEPT !.enq = TRUE, !.left = delay]
\* hrtimer_cancel returns once the callback is not running
hrtimer_cancel(t) == [t EXCEPT !.enq = FALSE, !.left = 0]
TimerDue(t) == t.enq /\ ~t.run /\ t.left = 0
TimerFire(t) == [enq |-> FALSE, run |-> TRUE, left |-> 0]
\* the callback's return: HRTIMER_RESTART after hrtimer_forward(period) queues the
\* timer again, unless a concurrent hrtimer_start already did
TimerReturn(t, restart) ==
  IF restart /\ ~t.enq THEN [enq |-> TRUE, run |-> FALSE, left |-> Period]
  ELSE [t EXCEPT !.run = FALSE]
TimerElapse(t) == IF t.enq /\ t.left > 0 THEN [t EXCEPT !.left = @ - 1] ELSE t

\* ----------------------------------------------------------------- queue
initialize_queue == <<>>
get_queue_size(q) == Len(q)
get_queue_room(q) == QueueCap - Len(q)
enqueue_string(q, s) ==
  LET n == Min(Len(s), get_queue_room(q))
  IN [queue |-> q \o SubSeq(s, 1, n), result |-> n]
dequeue_character(q) ==
  IF Len(q) > 0 THEN [ok |-> TRUE, character |-> Head(q), queue |-> Tail(q)]
  ELSE [ok |-> FALSE, character |-> 0, queue |-> q]

\* --------------------------------------------------------- configuration
recalc_indices_one_stop(en, stop) ==
  IF en # 0
  THEN [parity_index |-> 8, final_stop_bit_index |-> 9]
  ELSE [parity_index |-> -1, final_stop_bit_index |-> 8]
recalc_indices(en, stop) ==
  IF en # 0
  THEN [parity_index |-> 8, final_stop_bit_index |-> 8 + stop]
  ELSE [parity_index |-> -1, final_stop_bit_index |-> 7 + stop]

ParitySeedEven(odd) == 0
ParitySeed(odd) == IF odd # 0 THEN 1 ELSE 0

raspberry_soft_uart_set_stop_bits(n) ==
  /\ ctl_pc = "idle" /\ current_tty = NULL
  /\ stop_bits' = n
  /\ LET r == recalc_indices(parity_en, n)
     IN /\ parity_index' = r.parity_index
        /\ final_stop_bit_index' = r.final_stop_bit_index
  /\ UNCHANGED <<parity_en, ignore_parity_errors, parity_init, parity_odd>>
  /\ UNCHANGED <<current_tty, current_tty_mutex, irq_depth, rx_callback,
                 queue_tx, timer_tx, timer_rx, txVars, rxVars, rx_bit_index,
                 gpio_tx_value, gpio_rx_value, ctlVars, send_pc, session,
                 accepted, framed, wire, sink, line_events, inVars>>

raspberry_soft_uart_set_parity(en, odd, ign) ==
  /\ ctl_pc = "idle" /\ current_tty = NULL
  /\ parity_en' = en
  /\ parity_init' = ParitySeed(odd)
  /\ parity_odd' = odd
  /\ ignore_parity_errors' = ign
  /\ LET r == recalc_indices(en, stop_bits)
     IN /\ parity_index' = r.parity_index
        /\ final_stop_bit_index' = r.final_stop_bit_index
  /\ UNCHANGED stop_bits
  /\ UNCHANGED <<current_tty, current_tty_mutex, irq_depth, rx_callback,
                 queue_tx, timer_tx, timer_rx, txVars, rxVars, rx_bit_index,
                 gpio_tx_value, gpio_rx_value, ctlVars, send_pc, session,
                 accepted, framed, wire, sink, line_events, inVars>>

\* called while the transceiver is set up, before its first open
raspberry_soft_uart_set_rx_callback(cb) ==
  /\ ctl_pc = "idle" /\ session = "new"
  /\ rx_callback' = cb
  /\ UNCHANGED <<current_tty, current_tty_mutex, irq_depth, cfgVars,
                 queue_tx, timer_tx, timer_rx, txVars, rxVars, rx_bit_index,
                 gpio_tx_value, gpio_rx_value, ctlVars, send_pc, session,
                 accepted, framed, wire, sink, line_events, inVars>>

\* ------------------------------------------------------------ open, close
\* mutex_lock of raspberry_soft_uart_open
OpenLock(tty) ==
  /\ ctl_pc = "idle" /\ current_tty_mutex = "free"
  /\ current_tty_mutex' = "ctl"
  /\ ctl_pc' = "open"
  /\ ctl_tty' = tty
  /\ UNCHANGED <<current_tty, irq_depth, rx_callback, cfgVars,
                 queue_tx, timer_tx, timer_rx, txVars, rxVars, rx_bit_index,
                 gpio_tx_value, gpio_rx_value, send_pc, session,
                 accepted, framed, wire, sink, line_events, inVars>>

\* what open writes to rx_bit_index before it looks at current_tty
OpenRxIndex(cur, idx) == -1

\* the rest of raspberry_soft_uart_open, to its mutex_unlock
OpenBody ==
  /\ ctl_pc = "open"
  /\ rx_bit_index' = OpenRxIndex(current_tty, rx_bit_index)
  /\ IF current_tty = NULL
     THEN /\ current_tty' = ctl_tty
          /\ queue_tx' = initialize_queue
          /\ irq_depth' = Max(irq_depth - 1, 0)
          /\ session' = "open"
          /\ accepted' = <<>>
          /\ framed' = <<>>
     ELSE UNCHANGED <<current_tty, queue_tx, irq_depth, session, accepted, framed>>
  /\ current_tty_mutex' = "free"
  /\ ctl_pc' = "idle"
  /\ ctl_tty' = NULL
  /\ UNCHANGED <<rx_callback, cfgVars, timer_tx, timer_rx, txVars, rxVars,
                 gpio_tx_value, gpio_rx_value, send_pc,
                 wire, sink, line_events, inVars>>

\* mutex_lock and disable_irq of raspberry_soft_uart_close
CloseBegin ==
  /\ ctl_pc = "idle" /\ current_tty_mutex = "free"
  /\ irq_depth < MaxIrqDepth
  /\ current_tty_mutex' = "ctl"
  /\ irq_depth' = irq_depth + 1
  /\ ctl_pc' = "cancel_tx"
  /\ UNCHANGED <<current_tty, rx_callback, cfgVars,
                 queue_tx, timer_tx, timer_rx, txVars, rxVars, rx_bit_index,
                 gpio_tx_value, gpio_rx_value, ctl_tty, send_pc, session,
                 accepted, framed, wire, sink, line_events, inVars>>

\* hrtimer_cancel(&timer_tx): waits for a running handle_tx
CloseCancelTx ==
  /\ ctl_pc = "cancel_tx"
  /\ ~timer_tx.run
  /\ timer_tx' = hrtimer_cancel(timer_tx)
  /\ ctl_pc' = "cancel_rx"
  /\ UNCHANGED <<current_tty, current_tty_mutex, irq_depth, rx_callback, cfgVars,
                 queue_tx, timer_rx, txVars, rxVars, rx_bit_index,
                 gpio_tx_value, gpio_rx_value, ctl_tty, send_pc, session,
                 accepted, framed, wire, sink, line_events, inVars>>

\* hrtimer_cancel(&timer_rx), current_tty = NULL, mutex_unlock
CloseCancelRx ==
  /\ ctl_pc = "cancel_rx"
  /\ ~timer_rx.run
  /\ timer_rx' = hrtimer_cancel(timer_rx)
  /\ current_tty' = NULL
  /\ current_tty_mutex' = "free"
  /\ session' = "closed"
  /\ ctl_pc' = "idle"
  /\ UNCHANGED <<irq_depth, rx_callback, cfgVars,
                 queue_tx, timer_tx, txVars, rxVars, rx_bit_index,
                 gpio_tx_value, gpio_rx_value, ctl_tty, send_pc,
                 accepted, framed, wire, sink, line_events, inVars>>

\* ------------------------------------------------------------ send_string
\* enqueue_string of raspberry_soft_uart_send_string; the caller writes to a
\* transceiver that has been opened, open or closed since
SendEnqueue(s) ==
  /\ send_pc = "idle"
  /\ session # "new"
  /\ Len(accepted) + Len(s) <= MaxAccepted
  /\ LET r == enqueue_string(queue_tx, s)
     IN /\ queue_tx' = r.queue
        /\ accepted' = accepted \o SubSeq(s, 1, r.result)
  /\ send_pc' = "check"
  /\ UNCHANGED <<current_tty, current_tty_mutex, irq_depth, rx_callback, cfgVars,
                 timer_tx, timer_rx, txVars, rxVars, rx_bit_index,
                 gpio_tx_value, gpio_rx_value, ctlVars, session,
                 framed, wire, sink, line_events, inVars>>

\* if (!hrtimer_active(&timer_tx))
SendCheck ==
  /\ send_pc = "check"
  /\ send_pc' = IF hrtimer_active(timer_tx) THEN "idle" ELSE "start"
  /\ UNCHANGED <<current_tty, current_tty_mutex, irq_depth, rx_callback, cfgVars,
                 queue_tx, timer_tx, timer_rx, txVars, rxVars, rx_bit_index,
                 gpio_tx_value, gpio_rx_value, ctlVars, session,
                 accepted, framed, wire, sink, line_events, inVars>>

\* hrtimer_start(&timer_tx, period, HRTIMER_MODE_REL)
SendStart ==
  /\ send_pc = "start"
  /\ timer_tx' = hrtimer_start(timer_tx, Period)
  /\ send_pc' = "idle"
  /\ UNCHANGED <<current_tty, current_tty_mutex, irq_depth, rx_callback, cfgVars,
                 queue_tx, timer_rx, txVars, rxVars, rx_bit_index,
                 gpio_tx_value, gpio_rx_value, ctlVars, session,
                 accepted, framed, wire, sink, line_events, inVars>>

\* --------------------------------------------------------------- handle_tx
\* One run of handle_tx's branches on the current state: the new statics, the new
\* queue, the level driven (-1: gpio_set_value is not called), must_restart_timer,
\* and whether a byte was dequeued.
TxStay == [character |-> tx_character, bit_index |-> tx_bit_index, parity |-> tx_parity,
           queue |-> queue_tx, drive |-> -1, restart |-> FALSE, dequeued |-> FALSE]

TxStartBitPeek ==
  LET d == dequeue_character(queue_tx)
  IN IF d.ok
     THEN [TxStay EXCEPT !.character = d.character,
                         !.bit_index = tx_bit_index + 1, !.parity = parity_init,
                         !.drive = 0, !.restart = TRUE, !.dequeued = TRUE]
     ELSE TxStay

TxStartBit ==
  LET d == dequeue_character(queue_tx)
  IN IF d.ok
     THEN [TxStay EXCEPT !.character = d.character, !.queue = d.queue,
                         !.bit_index = tx_bit_index + 1, !.parity = parity_init,
                         !.drive = 0, !.restart = TRUE, !.dequeued = TRUE]
     ELSE TxStay

TxDataBit ==
  LET bit_value == ShiftAnd1(tx_character, tx_bit_index)
  IN [TxStay EXCEPT !.drive = bit_value, !.parity = Xor(tx_parity, bit_value),
                    !.bit_index = tx_bit_index + 1, !.restart = TRUE]

TxParityBit ==
  [TxStay EXCEPT !.drive = tx_parity, !.bit_index = tx_bit_index + 1, !.restart = TRUE]

TxStopBitRestart ==
  IF tx_bit_index = final_stop_bit_index
  THEN [TxStay EXCEPT !.character = 0, !.bit_index = -1, !.parity = 0, !.drive = 1,
                      !.restart = TRUE]
  ELSE [TxStay EXCEPT !.bit_index = tx_bit_index + 1, !.drive = 1, !.restart = TRUE]

TxStopBit ==
  IF tx_bit_index = final_stop_bit_index
  THEN [TxStay EXCEPT !.character = 0, !.bit_index = -1, !.parity = 0, !.drive = 1,
                      !.restart = get_queue_size(queue_tx) > 0]
  ELSE [TxStay EXCEPT !.bit_index = tx_bit_index + 1, !.drive = 1, !.restart = TRUE]

TxStep ==
  IF tx_bit_index = -1 THEN TxStartBit
  ELSE IF 0 <= tx_bit_index /\ tx_bit_index < 8 THEN TxDataBit
  ELSE IF tx_bit_index = parity_index THEN TxParityBit
  ELSE IF tx_bit_index <= final_stop_bit_index THEN TxStopBit
  ELSE TxStay

\* The timer fires and handle_tx runs up to its return statement.
TxCore ==
  /\ TimerDue(timer_tx)
  /\ timer_tx' = TimerFire(timer_tx)
  /\ LET r == TxStep
     IN /\ tx_character' = r.character
        /\ tx_bit_index' = r.bit_index
        /\ tx_parity' = r.parity
        /\ queue_tx' = r.queue
        /\ tx_must_restart' = r.restart
        /\ gpio_tx_value' = IF r.drive = -1 THEN gpio_tx_value ELSE r.drive
        /\ framed' = IF r.dequeued THEN Append(framed, r.character) ELSE framed

handle_tx ==
  /\ TxCore
  /\ UNCHANGED <<current_tty, current_tty_mutex, irq_depth, rx_callback, cfgVars,
                 timer_rx, rxVars, rx_bit_index, gpio_rx_value, ctlVars, send_pc,
                 session, accepted, wire, sink, line_events, inVars>>

\* handle_tx returns HRTIMER_RESTART or HRTIMER_NORESTART to the timer core
TxReturn ==
  /\ timer_tx.run
  /\ timer_tx' = TimerReturn(timer_tx, tx_must_restart)
  /\ tx_must_restart' = FALSE
  /\ UNCHANGED <<current_tty, current_tty_mutex, irq_depth, rx_callback, cfgVars,
                 queue_tx, timer_rx, tx_character, tx_bit_index, tx_parity,
                 rxVars, rx_bit_index, gpio_tx_value, gpio_rx_value, ctlVars, send_pc,
                 session, accepted, framed, wire, sink, line_events, inVars>>

\* --------------------------------------------------------- handle_rx_start
handle_rx_start_always(t, idx) == hrtimer_start(t, HalfPeriod)
handle_rx_start(t, idx) == IF idx = -1 THEN hrtimer_start(t, HalfPeriod) ELSE t

\* the input line goes to level lvl; a falling edge raises the interrupt when enabled
LineTo(lvl) ==
  /\ gpio_rx_value' = lvl
  /\ timer_rx' = IF gpio_rx_value = 1 /\ lvl = 0 /\ irq_depth = 0
                 THEN handle_rx_start(timer_rx, rx_bit_index)
                 ELSE timer_rx

\* --------------------------------------------------------------- handle_rx
\* One run of handle_rx's branches with the sampled level bit_value: the new statics,
\* must_restart_timer, and whether receive_character is called.
RxStay == [character |-> rx_character, bit_index |-> rx_bit_index, parity |-> rx_parity,
           parity_ok |-> rx_parity_ok, restart |-> FALSE, deliver |-> FALSE]

RxStartBit ==
  [RxStay EXCEPT !.bit_index = rx_bit_index + 1, !.character = 0,
                 !.parity = parity_init, !.parity_ok = TRUE, !.restart = TRUE]

RxShift(c) == c \div 2

RxDataBit(bit_value) ==
  LET c == IF bit_value = 0 THEN AndFeff(rx_character) ELSE Or0100(rx_character)
  IN [RxStay EXCEPT !.character = RxShift(c), !.parity = Xor(rx_parity, bit_value),
                    !.bit_index = rx_bit_index + 1, !.restart = TRUE]

RxParityCheckNever(bit_value) == rx_parity_ok
RxParityCheck(bit_value) == IF bit_value # rx_parity THEN FALSE ELSE rx_parity_ok

RxParityBit(bit_value) ==
  [RxStay EXCEPT !.parity_ok = RxParityCheck(bit_value),
                 !.bit_index = rx_bit_index + 1, !.restart = TRUE]

RxExtraStopBit ==
  [RxStay EXCEPT !.bit_index = rx_bit_index + 1, !.restart = TRUE]

RxMayDeliver == rx_parity_ok \/ ignore_parity_errors # 0

RxFinalStopBit ==
  [RxStay EXCEPT !.bit_index = -1, !.deliver = RxMayDeliver]

RxStep(bit_value) ==
  IF rx_bit_index = -1 THEN RxStartBit
  ELSE IF 0 <= rx_bit_index /\ rx_bit_index < 8 THEN RxDataBit(bit_value)
  ELSE IF rx_bit_index = parity_index THEN RxParityBit(bit_value)
  ELSE IF rx_bit_index < final_stop_bit_index THEN RxExtraStopBit
  ELSE IF rx_bit_index = final_stop_bit_index THEN RxFinalStopBit
  ELSE RxStay

\* The timer fires and handle_rx runs up to its return statement, or up to the
\* mutex_lock of receive_character (rx_bit_index is reset after that call returns).
handle_rx ==
  /\ TimerDue(timer_rx)
  /\ rx_pc = "idle"
  /\ timer_rx' = TimerFire(timer_rx)
  /\ LET r == RxStep(gpio_rx_value)
     IN /\ rx_character' = r.character
        /\ rx_parity' = r.parity
        /\ rx_parity_ok' = r.parity_ok
        /\ rx_must_restart' = r.restart
        /\ rx_bit_index' = IF r.deliver THEN rx_bit_index ELSE r.bit_index
        /\ rx_pc' = IF r.deliver THEN "deliver" ELSE "ret"
  /\ UNCHANGED <<current_tty, current_tty_mutex, irq_depth, rx_callback, cfgVars,
                 queue_tx, timer_tx, txVars, gpio_tx_value, gpio_rx_value,
                 ctlVars, send_pc, session, accepted, framed, wire, sink,
                 line_events, inVars>>

\* whom receive_character hands the byte to, NULL for nobody
SinkTarget == IF rx_callback # NULL THEN rx_callback ELSE current_tty

\* receive_character, from mutex_lock to mutex_unlock, then rx_bit_index = -1
receive_character ==
  /\ rx_pc = "deliver"
  /\ current_tty_mutex = "free"
  /\ sink' = IF SinkTarget # NULL
             THEN Append(sink, [to |-> SinkTarget, ch |-> ToUChar(rx_character)])
             ELSE sink
  /\ rx_bit_index' = -1
  /\ rx_pc' = "ret"
  /\ UNCHANGED <<current_tty, current_tty_mutex, irq_depth, rx_callback, cfgVars,
                 queue_tx, timer_tx, timer_rx, txVars, rx_character, rx_parity,
                 rx_parity_ok, rx_must_restart, gpio_tx_value, gpio_rx_value,
                 ctlVars, send_pc, session, accepted, framed, wire, line_events, inVars>>

\* handle_rx returns to the timer core
RxReturn ==
  /\ rx_pc = "ret"
  /\ timer_rx' = TimerReturn(timer_rx, rx_must_restart)
  /\ rx_must_restart' = FALSE
  /\ rx_pc' = "idle"
  /\ UNCHANGED <<current_tty, current_tty_mutex, irq_depth, rx_callback, cfgVars,
                 queue_tx, timer_tx, txVars, rx_character, rx_parity, rx_parity_ok,
                 rx_bit_index, gpio_tx_value, gpio_rx_value, ctlVars, send_pc,
                 session, accepted, framed, wire, sink, line_events, inVars>>

\* ------------------------------------------------------------ environment
\* the remote end pulls the input line low
LineFall ==
  /\ gpio_rx_value = 1
  /\ line_events < MaxLineEvents
  /\ line_events' = line_events + 1
  /\ LineTo(0)
  /\ UNCHANGED <<current_tty, current_tty_mutex, irq_depth, rx_callback, cfgVars,
                 queue_tx, timer_tx, txVars, rxVars, rx_bit_index, gpio_tx_value,
                 ctlVars, send_pc, session, accepted, framed, wire, sink, inVars>>

\* the remote end releases the input line
LineRise ==
  /\ gpio_rx_value = 0
  /\ line_events < MaxLineEvents
  /\ line_events' = line_events + 1
  /\ LineTo(1)
  /\ UNCHANGED <<current_tty, current_tty_mutex, irq_depth, rx_callback, cfgVars,
                 queue_tx, timer_tx, txVars, rxVars, rx_bit_index, gpio_tx_value,
                 ctlVars, send_pc, session, accepted, framed, wire, sink, inVars>>

\* half a bit period passes
Tick ==
  /\ (timer_tx.enq /\ timer_tx.left > 0) \/ (timer_rx.enq /\ timer_rx.left > 0)
  /\ timer_tx' = TimerElapse(timer_tx)
  /\ timer_rx' = TimerElapse(timer_rx)
  /\ UNCHANGED <<current_tty, current_tty_mutex, irq_depth, rx_callback, cfgVars,
                 queue_tx, txVars, rxVars, rx_bit_index, gpio_tx_value, gpio_rx_value,
                 ctlVars, send_pc, session, accepted, framed, wire, sink,
                 line_events, inVars>>

\* ------------------------------------------------------------------- init
\* ------------------------------------------------------------ init, finalize
\* hw.pc is "boot" before init, "ready" after init returned 1, "failed" after it
\* returned 0, "finalized" after finalize.  requested: gpio_request / request_irq
\* succeeded and the resource has not been freed; output, input: the direction
\* call succeeded.
Pins == {17, 27}

HwBoot ==
  [pc |-> "boot", gpio_tx |-> 0, gpio_rx |-> 0,
   tx_requested |-> FALSE, tx_output |-> FALSE,
   rx_requested |-> FALSE, rx_input |-> FALSE,
   irq_requested |-> FALSE, success |-> FALSE]

HwReady ==
  [pc |-> "ready", gpio_tx |-> 17, gpio_rx |-> 27,
   tx_requested |-> TRUE, tx_output |-> TRUE,
   rx_requested |-> TRUE, rx_input |-> TRUE,
   irq_requested |-> TRUE, success |-> TRUE]

\* everything but hw, the output line and the interrupt's disable depth
runVars == <<current_tty, current_tty_mutex, rx_callback, cfgVars, queue_tx,
             timer_tx, timer_rx, txVars, rxVars, rx_bit_index, gpio_rx_value,
             ctlVars, send_pc, session, accepted, framed, wire, sink,
             line_events, in_bytes, flip>>

\* success &= call() == 0, five times over; then disable_irq, whatever came of them.
\* tx_req .. irq are the outcomes of the five calls: a pin that is already
\* requested cannot be requested again.
raspberry_soft_uart_init(tx, rx, tx_req, tx_out, rx_req, rx_in, irq) ==
  /\ hw.pc = "boot"
  /\ (tx = rx /\ tx_req) => ~rx_req
  /\ hw' = [pc |-> IF tx_req /\ tx_out /\ rx_req /\ rx_in /\ irq THEN "ready" ELSE "failed",
            gpio_tx |-> tx, gpio_rx |-> rx,
            tx_requested |-> tx_req, tx_output |-> tx_out,
            rx_requested |-> rx_req, rx_input |-> rx_in,
            irq_requested |-> irq,
            success |-> tx_req /\ tx_out /\ rx_req /\ rx_in /\ irq]
  /\ gpio_tx_value' = IF tx_out THEN 1 ELSE gpio_tx_value
  /\ irq_depth' = (IF irq THEN 0 ELSE irq_depth) + 1
  /\ UNCHANGED runVars

raspberry_soft_uart_finalize ==
  /\ hw.pc = "ready"
  /\ hw' = [hw EXCEPT !.pc = "finalized", !.irq_requested = FALSE,
                      !.tx_requested = FALSE, !.rx_requested = FALSE]
  /\ gpio_tx_value' = 0
  /\ UNCHANGED <<irq_depth, runVars>>

\* the state after a successful raspberry_soft_uart_init
Init ==
  /\ current_tty = NULL
  /\ current_tty_mutex = "free"
  /\ irq_depth = 1
  /\ rx_callback = NULL
  /\ stop_bits = 1 /\ parity_en = 0 /\ ignore_parity_errors = 0
  /\ parity_init = 0 /\ final_stop_bit_index = 8 /\ parity_index = -1
  /\ parity_odd = 0
  /\ queue_tx = <<>>
  /\ timer_tx = TimerOff /\ timer_rx = TimerOff
  /\ tx_character = 0 /\ tx_bit_index = -1 /\ tx_parity = 0 /\ tx_must_restart = FALSE
  /\ rx_character = 0 /\ rx_bit_index = -1 /\ rx_parity = 0 /\ rx_parity_ok = TRUE
  /\ rx_must_restart = FALSE /\ rx_pc = "idle"
  /\ gpio_tx_value = 1 /\ gpio_rx_value = 1
  /\ ctl_pc = "idle" /\ ctl_tty = NULL
  /\ send_pc = "idle"
  /\ session = "new"
  /\ accepted = <<>> /\ framed = <<>> /\ wire = <<>> /\ sink = <<>>
  /\ line_events = 0
  /\ in_bytes = <<>> /\ flip = -1
  /\ hw = HwReady

SendStrings == UNION {[1..n -> SendBytes] : n \in 1..MaxSendLen}

\* open's argument: tty names are interchangeable, so a session is opened on the
\* first one and the others are offered while that session is open
OpenArgs(ttys) == IF current_tty = NULL THEN {"ttyA"} ELSE ttys

\* the setters are called between frames: no send_string call under way, neither
\* timer queued or running
NoFrameInFlight ==
  send_pc = "idle" /\ ~hrtimer_active(timer_tx) /\ ~hrtimer_active(timer_rx)

Control(ttys, igns) ==
  \/ \E tty \in OpenArgs(ttys) : OpenLock(tty)
  \/ OpenBody
  \/ CloseBegin
  \/ CloseCancelTx
  \/ CloseCancelRx
  \/ \E n \in {1, 2} : NoFrameInFlight /\ raspberry_soft_uart_set_stop_bits(n)
  \/ \E en \in {0, 1}, odd \in {0, 1}, ign \in igns :
        NoFrameInFlight /\ raspberry_soft_uart_set_parity(en, odd, ign)

\* the session, the sender and the transmit engine
NextTx ==
  \/ Control({"ttyA"}, {0})
  \/ \E s \in SendStrings : SendEnqueue(s)
  \/ SendCheck
  \/ SendStart
  \/ handle_tx
  \/ TxReturn
  \/ Tick

SpecTx == Init /\ [][NextTx]_vars

\* the session, the remote end and the receive engine
NextRx ==
  \/ Control(Ttys, {0, 1})
  \/ \E cb \in Callbacks : raspberry_soft_uart_set_rx_callback(cb)
  \/ LineFall
  \/ LineRise
  \/ handle_rx
  \/ receive_character
  \/ RxReturn
  \/ Tick

SpecRx == Init /\ [][NextRx]_vars

\* the module before raspberry_soft_uart_init: the statics hold their initializers,
\* nothing is acquired, the interrupt has no handler, the output pin is at
\* whatever level it was left at
Boot ==
  /\ current_tty = NULL
  /\ current_tty_mutex = "free"
  /\ irq_depth = 1
  /\ rx_callback = NULL
  /\ stop_bits = 1 /\ parity_en = 0 /\ ignore_parity_errors = 0
  /\ parity_init = 0 /\ final_stop_bit_index = 8 /\ parity_index = -1
  /\ parity_odd = 0
  /\ queue_tx = <<>>
  /\ timer_tx = TimerOff /\ timer_rx = TimerOff
  /\ tx_character = 0 /\ tx_bit_index = -1 /\ tx_parity = 0 /\ tx_must_restart = FALSE
  /\ rx_character = 0 /\ rx_bit_index = -1 /\ rx_parity = 0 /\ rx_parity_ok = TRUE
  /\ rx_must_restart = FALSE /\ rx_pc = "idle"
  /\ gpio_tx_value \in {0, 1} /\ gpio_rx_value = 1
  /\ ctl_pc = "idle" /\ ctl_tty = NULL
  /\ send_pc = "idle"
  /\ session = "new"
  /\ accepted = <<>> /\ framed = <<>> /\ wire = <<>> /\ sink = <<>>
  /\ line_events = 0
  /\ in_bytes = <<>> /\ flip = -1
  /\ hw = HwBoot

\* module load and unload
NextInit ==
  \/ \E tx \in Pins, rx \in Pins, tx_req \in BOOLEAN, tx_out \in BOOLEAN,
        rx_req \in BOOLEAN, rx_in \in BOOLEAN, irq \in BOOLEAN :
        raspberry_soft_uart_init(tx, rx, tx_req, tx_out, rx_req, rx_in, irq)
  \/ raspberry_soft_uart_finalize

SpecInit == Boot /\ [][NextInit]_vars

\* ---------------------------------------------------------------- loopback
\* The output line is wired to the input line.  Cell k of a frame is its k-th level
\* (0 the start bit, 1..8 the data bits, 9 the parity bit); the wire inverts the
\* level of cell flip (-1: no cell).
Corrupt(lvl, cell) == IF cell = flip THEN 1 - lvl ELSE lvl

\* the transmit timer fires: handle_tx drives the output line, the input line follows
LoopTx ==
  /\ TxCore
  /\ LET r == TxStep
     IN IF r.drive = -1
        THEN UNCHANGED <<wire, gpio_rx_value, timer_rx>>
        ELSE /\ wire' = Append(wire, r.drive)
             /\ LineTo(Corrupt(r.drive, tx_bit_index + 1))
  /\ UNCHANGED <<current_tty, current_tty_mutex, irq_depth, rx_callback, cfgVars,
                 rxVars, rx_bit_index, ctlVars, send_pc,
                 session, accepted, sink, line_events, inVars>>

\* half a bit period passes, once every due callback has run and returned
LoopTick ==
  /\ ~TimerDue(timer_tx) /\ ~TimerDue(timer_rx)
  /\ ~timer_tx.run /\ ~timer_rx.run
  /\ Tick

NextLoop ==
  \/ LoopTx
  \/ TxReturn
  \/ handle_rx
  \/ receive_character
  \/ RxReturn
  \/ LoopTick

\* the state after init, set_stop_bits(stop), set_parity(en, odd, ign), open("ttyA")
\* and send_string(bytes), with the wire corrupting cell f
LoopStart(stop, en, odd, ign, bytes, f) ==
  /\ current_tty = "ttyA"
  /\ current_tty_mutex = "free"
  /\ irq_depth = 0
  /\ rx_callback = NULL
  /\ stop_bits = stop /\ parity_en = en /\ ignore_parity_errors = ign
  /\ parity_init = ParitySeed(odd)
  /\ final_stop_bit_index = recalc_indices(en, stop).final_stop_bit_index
  /\ parity_index = recalc_indices(en, stop).parity_index
  /\ parity_odd = odd
  /\ queue_tx = enqueue_string(initialize_queue, bytes).queue
  /\ timer_tx = hrtimer_start(TimerOff, Period) /\ timer_rx = TimerOff
  /\ tx_character = 0 /\ tx_bit_index = -1 /\ tx_parity = 0 /\ tx_must_restart = FALSE
  /\ rx_character = 0 /\ rx_bit_index = -1 /\ rx_parity = 0 /\ rx_parity_ok = TRUE
  /\ rx_must_restart = FALSE /\ rx_pc = "idle"
  /\ gpio_tx_value = 1 /\ gpio_rx_value = 1
  /\ ctl_pc = "idle" /\ ctl_tty = NULL
  /\ send_pc = "idle"
  /\ session = "open"
  /\ accepted = bytes /\ framed = <<>> /\ wire = <<>> /\ sink = <<>>
  /\ line_events = 0
  /\ in_bytes = bytes /\ flip = f
  /\ hw = HwReady

Byte == 0..255
NextByte == 90

\* every byte under every configuration, alone or followed by a second byte; a clean wire
InitLoop ==
  \E stop \in {1, 2}, en \in {0, 1}, odd \in {0, 1}, ign \in {0, 1}, b \in Byte :
    \E bytes \in {<<b>>, <<b, NextByte>>} :
      LoopStart(stop, en, odd, ign, bytes, -1)

SpecLoop == InitLoop /\ [][NextLoop]_vars

\* every byte under every configuration, sent alone: over a clean wire, with its
\* first data bit corrupted, and with its parity bit corrupted when there is one
InitNoise ==
  \E stop \in {1, 2}, en \in {0, 1}, odd \in {0, 1}, ign \in {0, 1}, b \in Byte :
    \E f \in {-1, 1} \cup (IF en # 0 THEN {9} ELSE {}) :
      LoopStart(stop, en, odd, ign, <<b>>, f)

SpecNoise == InitNoise /\ [][NextLoop]_vars

\* ================================================================= claims
BitAt(b, i) == (b \div (2 ^ i)) % 2
PopCount(b) == BitAt(b, 0) + BitAt(b, 1) + BitAt(b, 2) + BitAt(b, 3)
             + BitAt(b, 4) + BitAt(b, 5) + BitAt(b, 6) + BitAt(b, 7)
IsPrefix(s, t) == Len(s) <= Len(t) /\ \A i \in 1..Len(s) : s[i] = t[i]

\* a loopback run is over: both timers are off and no callback is running
LoopDone == ~hrtimer_active(timer_tx) /\ ~hrtimer_active(timer_rx) /\ rx_pc = "idle"

\* the parity bit that makes the number of 1 bits even (even parity) or odd (odd parity)
ExpectedParity(b) == (PopCount(b) + (IF parity_odd # 0 THEN 1 ELSE 0)) % 2
\* the frame of byte b on the wire
ExpectedFrame(b) ==
  <<0>> \o [i \in 1..8 |-> BitAt(b, i - 1)]
        \o (IF parity_en # 0 THEN <<ExpectedParity(b)>> ELSE <<>>)
        \o [i \in 1..stop_bits |-> 1]
FrameTicks == 9 + (IF parity_en # 0 THEN 1 ELSE 0) + stop_bits
ExpectedWire ==
  IF Len(in_bytes) = 1 THEN ExpectedFrame(in_bytes[1])
  ELSE ExpectedFrame(in_bytes[1]) \o ExpectedFrame(in_bytes[2])
SinkBytes == [i \in 1..Len(sink) |-> sink[i].ch]

\* C1: framing round trip.  Over a clean wire the receiver delivers the bytes the
\* transmitter framed, each exactly once and in order: never a byte that was not
\* sent, all of them by the end of the run; and at the final stop tick of a frame
\* with parity the parity-ok flag is true.
C1_RoundTrip ==
  /\ IsPrefix(SinkBytes, in_bytes)
  /\ \A i \in 1..Len(sink) : sink[i].to = current_tty
  /\ (LoopDone => SinkBytes = in_bytes)
  /\ (parity_en # 0 /\ rx_bit_index = final_stop_bit_index => rx_parity_ok)

C1_Witness ==
  /\ LoopDone /\ parity_en # 0 /\ parity_odd # 0 /\ stop_bits = 2
  /\ in_bytes = <<165>> /\ SinkBytes = <<165>>

\* C2: wire format.  The levels driven on the output line are, tick by tick, the
\* start bit 0, the eight data bits least significant first, the parity bit iff
\* parity is enabled, and stop_bits times 1; a frame is 9 + parity + stop_bits
\* levels long, one per tick, and the next frame's start bit comes after it.
C2_WireFormat ==
  /\ IsPrefix(wire, ExpectedWire)
  /\ (LoopDone => wire = ExpectedWire)
  /\ Len(ExpectedFrame(in_bytes[1])) = FrameTicks
  /\ Len(wire) = FrameTicks * (Len(framed) - (IF tx_bit_index = -1 THEN 0 ELSE 1))
                 + tx_bit_index + 1

C2_Witness ==
  /\ LoopDone /\ parity_en # 0 /\ stop_bits = 2 /\ Len(in_bytes) = 2
  /\ in_bytes[1] = 1 /\ Len(wire) = 24
  /\ wire[1] = 0 /\ wire[2] = 1 /\ wire[3] = 0 /\ wire[11] = 1 /\ wire[12] = 1
  /\ wire[13] = 0

\* C3: parity correctness.  The parity bit driven after the eight data bits makes
\* the number of 1 bits among data and parity even under even parity and odd under
\* odd parity; 0x00 and 0xFF get parity bit 0 (even) and 1 (odd), 0x01 gets 1 and 0.
C3_Parity ==
  parity_en # 0 /\ Len(wire) >= 10 =>
    LET b == in_bytes[1]
        p == wire[10]
    IN /\ (PopCount(b) + p) % 2 = (IF parity_odd # 0 THEN 1 ELSE 0)
       /\ (b \in {0, 255} => p = (IF parity_odd # 0 THEN 1 ELSE 0))
       /\ (b = 1 => p = (IF parity_odd # 0 THEN 0 ELSE 1))

C3_Witness ==
  /\ parity_en # 0 /\ parity_odd # 0 /\ Len(wire) >= 10
  /\ in_bytes[1] = 255 /\ wire[10] = 1

\* the level the receiver is shown in cell k of the first frame
Presented(k) == Corrupt(wire[k + 1], k)
SampledData ==
  Presented(1) + 2 * Presented(2) + 4 * Presented(3) + 8 * Presented(4)
  + 16 * Presented(5) + 32 * Presented(6) + 64 * Presented(7) + 128 * Presented(8)
ParityMismatch ==
  parity_en # 0 /\ Presented(9) # (parity_init + PopCount(SampledData)) % 2

\* C4: corrupted parity drop.  When the sampled parity bit contradicts the eight
\* sampled data bits, the frame delivers nothing unless ignore_parity_errors is
\* set, and then it delivers the assembled byte; a frame whose parity bit agrees,
\* or a frame without parity, delivers the assembled byte.  Either way the receive
\* cursor is back at "waiting for start edge" when the frame is over.
C4_ParityDrop ==
  /\ Len(sink) <= 1
  /\ \A i \in 1..Len(sink) : sink[i].ch = SampledData
  /\ LoopDone =>
       /\ rx_bit_index = -1
       /\ Len(sink) = (IF ParityMismatch /\ ignore_parity_errors = 0 THEN 0 ELSE 1)

C4_Witness ==
  /\ LoopDone /\ ParityMismatch /\ ignore_parity_errors # 0 /\ flip = 9
  /\ Len(sink) = 1 /\ sink[1].ch = 66

C6_NoLostWakeup ==
  ( /\ session = "open" /\ ctl_pc = "idle" /\ send_pc = "idle"
    /\ ~hrtimer_active(timer_tx) /\ tx_bit_index = -1 )
  => get_queue_size(queue_tx) = 0

\* C7: idle disarm.  A tick that handles the final stop bit, or finds the cursor
\* idle, with the queue empty, asks for no restart; the return of such a tick
\* leaves the timer off; and a timer that is off is armed again by nothing but
\* send_string's hrtimer_start, so no tick happens before that.
C7_IdleDisarm ==
  [][/\ ( /\ TimerDue(timer_tx) /\ timer_tx'.run
          /\ tx_bit_index \in {-1, final_stop_bit_index}
          /\ get_queue_size(queue_tx) = 0 )
        => (~tx_must_restart' /\ tx_bit_index' = -1)
     /\ (timer_tx.run /\ ~timer_tx'.run /\ ~tx_must_restart)
        => ~hrtimer_active(timer_tx')
     /\ (~hrtimer_active(timer_tx) /\ hrtimer_active(timer_tx'))
        => (send_pc = "start" /\ send_pc' = "idle" /\ ~timer_tx'.run)]_vars

C7_Witness ==
  /\ session = "open" /\ ctl_pc = "idle" /\ send_pc = "idle"
  /\ Len(framed) = 1 /\ framed = accepted
  /\ tx_bit_index = -1 /\ get_queue_size(queue_tx) = 0
  /\ ~hrtimer_active(timer_tx) /\ gpio_tx_value = 1

\* C8: start-edge debounce.  A falling edge on the input line that raises the
\* interrupt while rx_bit_index is not -1 changes neither the receive timer nor
\* the cursor, the shift register, the parity accumulator or the parity-ok flag.
C8_EdgeDebounce ==
  [][(gpio_rx_value = 1 /\ gpio_rx_value' = 0 /\ irq_depth = 0 /\ rx_bit_index # -1)
     => UNCHANGED <<timer_rx, rx_bit_index, rx_character, rx_parity, rx_parity_ok>>]_vars

\* the first data bit was sampled high and the line is low now: it fell mid-frame
C8_Witness ==
  /\ irq_depth = 0 /\ rx_bit_index = 1 /\ rx_character = 128
  /\ gpio_rx_value = 0 /\ hrtimer_active(timer_rx)

\* C9: session exclusivity.  An open that finds a session open leaves the tty, the
\* transmit queue and the receive cursor as they were.
C9_OpenTwiceUntouched ==
  [][(ctl_pc = "open" /\ ctl_pc' = "idle" /\ current_tty # NULL)
     => UNCHANGED <<current_tty, queue_tx, rx_bit_index>>]_vars

\* C10: quiescence after close.  From the return of close to the next successful
\* open no timer callback is running.
C10_QuiescentAfterClose ==
  session = "closed" => (~timer_tx.run /\ ~timer_rx.run /\ rx_pc = "idle")

\* C11: close discards the queued bytes.  In the state close returns in, with no
\* send_string call under way and the transmit timer off, the transmit queue is
\* empty.
C11_CloseDiscardsQueue ==
  [][(ctl_pc = "cancel_rx" /\ ctl_pc' = "idle" /\ send_pc = "idle"
      /\ ~hrtimer_active(timer_tx))
     => get_queue_size(queue_tx') = 0]_vars

\* C12: open always starts listening.  A successful open returns with the edge
\* interrupt enabled, however many closes came before it.
C12_OpenListens ==
  [][(ctl_pc = "open" /\ ctl_pc' = "idle" /\ current_tty = NULL) => irq_depth' = 0]_vars

\* C13: a failed init leaves nothing acquired.  When init has returned 0 neither
\* pin is requested and no handler is registered for the edge interrupt.
C13_InitFailureReleasesAll ==
  hw.pc = "failed" => (~hw.tx_requested /\ ~hw.rx_requested /\ ~hw.irq_requested)

\* C14: the derived constants agree with the flags.  In every state parity_index
\* is 8 with parity enabled and -1 without, final_stop_bit_index is 8 + stop_bits
\* with parity and 7 + stop_bits without, and parity_init is 1 exactly when the
\* last set_parity asked for odd parity.
C14_DerivedConsistent ==
  /\ parity_en # 0 => (parity_index = 8 /\ final_stop_bit_index = 8 + stop_bits)
  /\ parity_en = 0 => (parity_index = -1 /\ final_stop_bit_index = 7 + stop_bits)
  /\ parity_odd # 0 => parity_init = 1
  /\ parity_odd = 0 => parity_init = 0

\* odd parity and two stop bits were set, in either order
C14_Witness ==
  /\ parity_en = 1 /\ parity_odd = 1 /\ stop_bits = 2
  /\ parity_index = 8 /\ final_stop_bit_index = 10 /\ parity_init = 1

\* C15: a start edge takes the receiver out of waiting.  A falling edge that raises
\* the interrupt while the receive timer is queued for a frame changes neither the
\* timer nor the cursor.
C15_ArmedEdgeIgnored ==
  [][(gpio_rx_value = 1 /\ gpio_rx_value' = 0 /\ irq_depth = 0 /\ timer_rx.enq)
     => UNCHANGED <<timer_rx, rx_bit_index>>]_vars

\* C17: close resets the transmit frame state.  In the state close returns in, with
\* no send_string call under way and the transmit timer off, the transmit cursor
\* is idle, there is no current byte and the parity accumulator is cleared.
C17_CloseResetsTx ==
  [][(ctl_pc = "cancel_rx" /\ ctl_pc' = "idle" /\ send_pc = "idle"
      /\ ~hrtimer_active(timer_tx))
     => (tx_bit_index' = -1 /\ tx_character' = 0 /\ tx_parity' = 0)]_vars

\* C18: close does not deadlock against a delivery.  Close never holds the lock at
\* its wait for the receive callback while that callback waits for the lock in
\* receive_character.
C18_NoCloseDeliveryDeadlock ==
  ~(ctl_pc = "cancel_rx" /\ current_tty_mutex = "ctl" /\ timer_rx.run /\ rx_pc = "deliver")

\* C19: the output line idles high.  Whenever the transmit timer is neither queued
\* nor running its callback, the output line is at level 1.
C19_IdleHigh ==
  ~hrtimer_active(timer_tx) => gpio_tx_value = 1

\* C20: the transmit engine never gets stuck.  With the setters called only while
\* the session is closed, the transmit cursor is in -1..final_stop_bit_index at
\* every tick of the transmit timer of an open session.
C20_TxCursorInRange ==
  (TimerDue(timer_tx) /\ session = "open")
     => (tx_bit_index >= -1 /\ tx_bit_index <= final_stop_bit_index)

\* C16: receive frame length and disarm.  While a session is open the receive cursor
\* moves only as the ticks of one frame move it: from -1 up to final_stop_bit_index
\* one step per tick, each of these ticks re-arming the timer, and from
\* final_stop_bit_index back to -1 on a tick that does not re-arm and delivers at
\* most one byte.  That is final_stop_bit_index + 2 ticks for every accepted edge:
\* 10, plus one with parity, plus one with two stop bits.
C16_RxFrameLength ==
  [][(current_tty # NULL /\ rx_bit_index' # rx_bit_index)
     => \/ /\ rx_bit_index < final_stop_bit_index
           /\ rx_bit_index' = rx_bit_index + 1
           /\ rx_must_restart'
        \/ /\ rx_bit_index = final_stop_bit_index
           /\ rx_bit_index' = -1
           /\ ~rx_must_restart'
           /\ Len(sink') <= Len(sink) + 1]_vars

====
